---------------------------- MODULE Spec2Model ----------------------------
(***************************************************************************)
(* Shape and type inference of the matmul-family contrib operators of      *)
(* onnxruntime/core/graph/contrib_ops/contrib_defs.cc.                     *)
(*                                                                         *)
(* A node (an InferenceContext) has two inputs A and B, four integer       *)
(* attributes and one output Y.  One inference call is one action: it      *)
(* reads the inputs and the attributes and writes the output's element     *)
(* type and shape, or throws.                                              *)
(*                                                                         *)
(* A TensorShapeProto is a sequence of dimensions.  A dimension is either  *)
(* a value (has_dim_value(), a natural number) or has no value; a          *)
(* dimension without value is NoValue.                                     *)
(***************************************************************************)
EXTENDS Integers, Sequences, FiniteSets, TLC

VARIABLES
    A,        \* input 0: [hasShape, dim, elem_type]
    B,        \* input 1: [hasShape, dim, elem_type]
    attr,     \* the node's attributes transA, transB, transBatchA, transBatchB
    Y,        \* output 0: [hasShape, dim, elem_type]
    pc,       \* "idle" before the call, "done" after it
    err,      \* what the call threw: "none", "InvalidRank", "IncompatibleDimensions"
    op,       \* the operator schema of the node
    last,     \* the previous call on the node: <<>>, or <<its inputs and outcome>>
    calls     \* the calls running concurrently on other nodes, one per node

vars == <<A, B, attr, Y, pc, err, op, last, calls>>

----------------------------------------------------------------------------
(* Bounds of the model *)

\* the largest rank of an input shape
MaxRank == 3

\* the largest rank of an input shape where the operators and the element
\* types vary
MaxRankOps == 2

\* the number of nodes whose calls run concurrently
MaxNodes == 2

\* the largest high word of the 64-bit value of an attribute
MaxHiWord == 1

----------------------------------------------------------------------------
(* Dimensions, shapes, attributes *)

NoValue == -1

has_dim_value(d) == d # NoValue

\* The dimension values of the model.  The code compares dimension values
\* with each other and with 1 and never computes with them, so what matters
\* of two dims is which of them are known, which are 1 and whether they are
\* equal: input 0 has the values 1 and 2, input 1 has 0 as well, a value that
\* is neither 1 nor a value of input 0.
DimValuesA == {1, 2}

DimValuesB == {0, 1, 2}

ShapesOver(values) == UNION {[1..r -> values \cup {NoValue}] : r \in 0..MaxRank}

ElemTypes == {"float"}

UNDEFINED == "undefined"

\* An input with a tensor type: the shape may be missing (hasInputShape).
InputsOver(values) ==
    [hasShape : {TRUE}, dim : ShapesOver(values), elem_type : ElemTypes]
    \cup [hasShape : {FALSE}, dim : {<<>>}, elem_type : ElemTypes]

InputsA == InputsOver(DimValuesA)

InputsB == InputsOver(DimValuesB)

\* An int64 is held as its two 32-bit words: the value is hi * 2^32 + lo.
Int64(hi, lo) == [hi |-> hi, lo |-> lo]

Int64IsZero(v) == v.hi = 0 /\ v.lo = 0

\* An attribute is absent (getAttribute returns nullptr) or holds an int64.
NoAttr == [present |-> FALSE, i |-> Int64(0, 0)]

AttrOf(v) == [present |-> TRUE, i |-> v]

AttrNames == {"transA", "transB", "transBatchA", "transBatchB"}

\* static_cast<int>(int64): the low 32 bits are kept, the high word is lost.
StaticCastInt(v) == v.lo

\* attr ? static_cast<int>(attr->i()) != 0 : false
\* mutant: an absent attribute reads as true
AttrFlag_AbsentIsTrue(a) == IF a.present THEN a.i.lo # 0 ELSE TRUE

AttrFlag(a) == IF a.present THEN StaticCastInt(a.i) # 0 ELSE FALSE

----------------------------------------------------------------------------
(* Sequence helpers *)

\* shape.dim(i), with the source's 0-based index
dim(shape, i) == shape[i + 1]

dim_size(shape) == Len(shape)

\* the dims i with from <= i < to (0-based), in order
DimRange(shape, from, to) ==
    IF to <= from THEN <<>> ELSE [j \in 1..(to - from) |-> shape[from + j]]

----------------------------------------------------------------------------
(* multidirectionalBroadcastShapeInference for two shapes (ONNX helper).   *)
(* The result is [ok, dim]; ok = FALSE is fail_shape_inference.            *)

\* One aligned pair of dims; an absent dim of the shorter shape is skipped
\* by the helper, which is the same as a dim of value 1.
BroadcastDimOk(l, r) ==
    ~(has_dim_value(l) /\ has_dim_value(r) /\ l # 1 /\ r # 1 /\ l # r)

BroadcastDim(l, r) ==
    LET dim_value ==
            IF has_dim_value(l) /\ l # 1 THEN l
            ELSE IF has_dim_value(r) /\ r # 1 THEN r
            ELSE 1
        num_symbolic_dims ==
            (IF has_dim_value(l) THEN 0 ELSE 1) + (IF has_dim_value(r) THEN 0 ELSE 1)
    IN  IF dim_value # 1 \/ num_symbolic_dims = 0 THEN dim_value ELSE NoValue

bidirectionalBroadcastShapeInference(shapeL, shapeR) ==
    LET n == IF Len(shapeL) > Len(shapeR) THEN Len(shapeL) ELSE Len(shapeR)
        \* dim i (1-based) of a shape aligned to the right in n places
        At(s, i) == IF i <= n - Len(s) THEN 1 ELSE s[i - (n - Len(s))]
    IN  [ok  |-> \A i \in 1..n : BroadcastDimOk(At(shapeL, i), At(shapeR, i)),
         dim |-> [i \in 1..n |-> BroadcastDim(At(shapeL, i), At(shapeR, i))]]

----------------------------------------------------------------------------
(* FusedMatMulShapeInference *)

\* mutant: a vector with its batch-transpose flag set takes the general branch
TransposedView_VectorBatch(raw, trans, trans_batch) ==
    LET rank == dim_size(raw)
        start == IF trans_batch THEN 1 ELSE 0
        end == IF trans_batch THEN rank - 1 ELSE rank - 2
    IN  IF rank = 1 /\ ~trans_batch THEN raw
        ELSE DimRange(raw, start, end)
             \o << dim(raw, IF trans THEN rank - 1
                            ELSE (IF trans_batch THEN 0 ELSE rank - 2)) >>
             \o << dim(raw, IF trans THEN (IF trans_batch THEN 0 ELSE rank - 2)
                            ELSE rank - 1) >>

\* mutant: the transpose flag is not applied to the last two axes
TransposedView_NoTranspose(raw, trans, trans_batch) ==
    LET rank == dim_size(raw)
        start == IF trans_batch THEN 1 ELSE 0
        end == IF trans_batch THEN rank - 1 ELSE rank - 2
    IN  IF rank = 1 THEN raw
        ELSE DimRange(raw, start, end)
             \o << dim(raw, IF trans_batch THEN 0 ELSE rank - 2) >>
             \o << dim(raw, rank - 1) >>

\* mutant: the batch-transpose flag leaves the last two axes the matrix axes
TransposedView_BatchKeepsMatrix(raw, trans, trans_batch) ==
    LET rank == dim_size(raw)
    IN  IF rank = 1 THEN raw
        ELSE (IF trans_batch
              THEN DimRange(raw, 1, rank - 2) \o DimRange(raw, 0, 1)
              ELSE DimRange(raw, 0, rank - 2))
             \o << dim(raw, IF trans THEN rank - 1 ELSE rank - 2) >>
             \o << dim(raw, IF trans THEN rank - 2 ELSE rank - 1) >>

\* mutant: with both flags set the last two axes are swapped and axis 0
\* stays in the batch prefix
TransposedView_TransIgnoresBatch(raw, trans, trans_batch) ==
    LET rank == dim_size(raw)
        start == IF trans_batch /\ ~trans THEN 1 ELSE 0
        end == IF trans_batch /\ ~trans THEN rank - 1 ELSE rank - 2
    IN  IF rank = 1 THEN raw
        ELSE DimRange(raw, start, end)
             \o << dim(raw, IF trans THEN rank - 1
                            ELSE (IF trans_batch THEN 0 ELSE rank - 2)) >>
             \o << dim(raw, IF trans THEN rank - 2 ELSE rank - 1) >>

\* mutant: on a matrix the batch flag exchanges axis 0 and axis 1
TransposedView_BatchOnMatrix(raw, trans, trans_batch) ==
    LET rank == dim_size(raw)
        start == IF trans_batch THEN 1 ELSE 0
        end == IF trans_batch THEN rank - 1 ELSE rank - 2
        swap == IF rank = 2 /\ trans_batch THEN ~trans ELSE trans
    IN  IF rank = 1 THEN raw
        ELSE DimRange(raw, start, end)
             \o << dim(raw, IF swap THEN rank - 1
                            ELSE (IF trans_batch THEN 0 ELSE rank - 2)) >>
             \o << dim(raw, IF swap THEN (IF trans_batch THEN 0 ELSE rank - 2)
                            ELSE rank - 1) >>

\* The operand as the multiplication reads it: lines 310-337.
TransposedView(raw, trans, trans_batch) ==
    LET rank == dim_size(raw)
        start == IF trans_batch THEN 1 ELSE 0
        end == IF trans_batch THEN rank - 1 ELSE rank - 2
    IN  IF rank = 1 THEN raw
        ELSE DimRange(raw, start, end)
             \o << dim(raw, IF trans THEN rank - 1
                            ELSE (IF trans_batch THEN 0 ELSE rank - 2)) >>
             \o << dim(raw, IF trans THEN (IF trans_batch THEN 0 ELSE rank - 2)
                            ELSE rank - 1) >>

\* mutant: the vector on the left is promoted to a column, like the right one
PromoteL_AsColumn(shape0) ==
    IF dim_size(shape0) = 1 THEN <<dim(shape0, 0), 1>> ELSE shape0

\* Promotion to rank 2 of the left and of the right operand: lines 343-356.
PromoteL(shape0) == IF dim_size(shape0) = 1 THEN <<1, dim(shape0, 0)>> ELSE shape0

PromoteR(shape1) == IF dim_size(shape1) = 1 THEN <<dim(shape1, 0), 1>> ELSE shape1

\* mutant: the last axis of the left is compared with the last of the right
ContractionMismatch_LastAxes(shapeL, shapeR) ==
    LET dimL == dim(shapeL, dim_size(shapeL) - 1)
        dimR == dim(shapeR, dim_size(shapeR) - 1)
    IN  has_dim_value(dimL) /\ has_dim_value(dimR) /\ dimL # dimR

\* mutant: a dim without value does not pass the check
ContractionMismatch_UnknownFails(shapeL, shapeR) ==
    LET dimL == dim(shapeL, dim_size(shapeL) - 1)
        dimR == dim(shapeR, dim_size(shapeR) - 2)
    IN  ~has_dim_value(dimL) \/ ~has_dim_value(dimR) \/ dimL # dimR

\* mutant: a contraction axis of 1 broadcasts against the other
ContractionMismatch_Broadcasts(shapeL, shapeR) ==
    LET dimL == dim(shapeL, dim_size(shapeL) - 1)
        dimR == dim(shapeR, dim_size(shapeR) - 2)
    IN  has_dim_value(dimL) /\ has_dim_value(dimR) /\ dimL # dimR
        /\ dimL # 1 /\ dimR # 1

\* Check for compatible matrix multiply dimensions: lines 359-366.
ContractionMismatch(shapeL, shapeR) ==
    LET dimL == dim(shapeL, dim_size(shapeL) - 1)
        dimR == dim(shapeR, dim_size(shapeR) - 2)
    IN  has_dim_value(dimL) /\ has_dim_value(dimR) /\ dimL # dimR

\* mutant: the loop over the prefix starts at axis 1
PrefixShape_SkipsFirst(shape) == DimRange(shape, 1, dim_size(shape) - 2)

\* mutant: the loop over the prefix ends one axis early
PrefixShape_EndsEarly(shape) == DimRange(shape, 0, dim_size(shape) - 3)

\* The broadcastable prefix of a promoted shape: lines 373-379.
PrefixShape(shape) == DimRange(shape, 0, dim_size(shape) - 2)

\* mutant: the column axis of B is added before the row axis of A
TrailingDims_Swapped(shape0, shape1, shapeL, shapeR) ==
    (IF dim_size(shape1) # 1
     THEN << dim(shapeR, dim_size(shapeR) - 1) >> ELSE <<>>)
    \o (IF dim_size(shape0) # 1
        THEN << dim(shapeL, dim_size(shapeL) - 2) >> ELSE <<>>)

\* mutant: the axes of the promoted shapes are added for vectors too
TrailingDims_KeepPromoted(shape0, shape1, shapeL, shapeR) ==
    << dim(shapeL, dim_size(shapeL) - 2), dim(shapeR, dim_size(shapeR) - 1) >>

\* mutant: the row axis is added for a vector on the left too
TrailingDims_VectorLeftKept(shape0, shape1, shapeL, shapeR) ==
    << dim(shapeL, dim_size(shapeL) - 2) >>
    \o (IF dim_size(shape1) # 1
        THEN << dim(shapeR, dim_size(shapeR) - 1) >> ELSE <<>>)

\* Add the trailing dimensions back in: lines 385-392.
TrailingDims(shape0, shape1, shapeL, shapeR) ==
    (IF dim_size(shape0) # 1
     THEN << dim(shapeL, dim_size(shapeL) - 2) >> ELSE <<>>)
    \o (IF dim_size(shape1) # 1
        THEN << dim(shapeR, dim_size(shapeR) - 1) >> ELSE <<>>)

\* mutant: the contraction axes are not compared
MatMulOfViews_NoContractionCheck(shape0, shape1) ==
    LET shapeL == PromoteL(shape0)
        shapeR == PromoteR(shape1)
        bc == bidirectionalBroadcastShapeInference(PrefixShape(shapeL),
                                                   PrefixShape(shapeR))
        resultShape == bc.dim \o TrailingDims(shape0, shape1, shapeL, shapeR)
    IN  IF ~bc.ok
        THEN [err |-> "IncompatibleDimensions", wrote |-> FALSE, dim |-> <<>>]
        ELSE [err |-> "none", wrote |-> TRUE, dim |-> resultShape]

\* Lines 339-393: from the two views to the result shape or a failure.
MatMulOfViews(shape0, shape1) ==
    LET shapeL == PromoteL(shape0)
        shapeR == PromoteR(shape1)
        bc == bidirectionalBroadcastShapeInference(PrefixShape(shapeL),
                                                   PrefixShape(shapeR))
        resultShape == bc.dim \o TrailingDims(shape0, shape1, shapeL, shapeR)
    IN  IF ContractionMismatch(shapeL, shapeR)
        THEN [err |-> "IncompatibleDimensions", wrote |-> FALSE, dim |-> <<>>]
        ELSE IF ~bc.ok
        THEN [err |-> "IncompatibleDimensions", wrote |-> FALSE, dim |-> <<>>]
        ELSE [err |-> "none", wrote |-> TRUE, dim |-> resultShape]

\* What fail_shape_inference is given at line 364 when dimL and dimR
\* differ: a string literal, with no value formatted into it.
IncompatibleDimensionsFailure(dimL, dimR) ==
    [text |-> "Incompatible dimensions for matrix multiplication", args |-> <<>>]

\* mutant: only the shape of input 0 is asked for
MissingInputShape_OnlyA(a, b) == ~a.hasShape

\* !hasInputShape(ctx, 0) || !hasInputShape(ctx, 1): line 291.
MissingInputShape(a, b) == ~a.hasShape \/ ~b.hasShape

\* shape0_raw.dim_size() == 0 || shape1_raw.dim_size() == 0: line 298.
WrongRank(shape0_raw, shape1_raw) ==
    dim_size(shape0_raw) = 0 \/ dim_size(shape1_raw) = 0

\* mutant: a wrong rank ends the call like a missing shape does
WrongRankFailure_Return == [err |-> "none", wrote |-> FALSE, dim |-> <<>>]

\* fail_shape_inference("Input tensors of wrong rank (0)."): line 299.
WrongRankFailure == [err |-> "InvalidRank", wrote |-> FALSE, dim |-> <<>>]

\* numpy transpose on a vector does not change anything: lines 303-308.
VectorTranspose(raw, trans) == IF dim_size(raw) = 1 THEN FALSE ELSE trans

\* mutant: transb is read from the attribute transA
FusedMatMulShape_TransBFromA(a, b, at) ==
    LET trans_batch_a == AttrFlag(at.transBatchA)
        trans_batch_b == AttrFlag(at.transBatchB)
        shape0_raw == a.dim
        shape1_raw == b.dim
        transa == VectorTranspose(shape0_raw, AttrFlag(at.transA))
        transb == VectorTranspose(shape1_raw, AttrFlag(at.transA))
    IN  IF MissingInputShape(a, b)
        THEN [err |-> "none", wrote |-> FALSE, dim |-> <<>>]
        ELSE IF WrongRank(shape0_raw, shape1_raw)
        THEN WrongRankFailure
        ELSE MatMulOfViews(TransposedView(shape0_raw, transa, trans_batch_a),
                           TransposedView(shape1_raw, transb, trans_batch_b))

\* The shape part of FusedMatMulShapeInference, lines 281-393, as a function
\* of the two inputs and the attributes: [err, wrote, dim]; wrote says
\* whether updateOutputShape was reached.
FusedMatMulShape(a, b, at) ==
    LET trans_batch_a == AttrFlag(at.transBatchA)
        trans_batch_b == AttrFlag(at.transBatchB)
        shape0_raw == a.dim
        shape1_raw == b.dim
        transa == VectorTranspose(shape0_raw, AttrFlag(at.transA))
        transb == VectorTranspose(shape1_raw, AttrFlag(at.transB))
    IN  IF MissingInputShape(a, b)
        THEN [err |-> "none", wrote |-> FALSE, dim |-> <<>>]
        ELSE IF WrongRank(shape0_raw, shape1_raw)
        THEN WrongRankFailure
        ELSE MatMulOfViews(TransposedView(shape0_raw, transa, trans_batch_a),
                           TransposedView(shape1_raw, transb, trans_batch_b))

\* mutant: the element type is taken from input 1
FusedMatMulElemType_FromB(a, b) == b.elem_type

\* propagateElemTypeFromInputToOutput(ctx, 0, 0): line 280.
FusedMatMulElemType(a, b) == a.elem_type

\* mutant: the element type is taken from the sparse input 0
SparseToDenseMatMulElemType_FromA(a, b) == a.elem_type

\* propagateElemTypeFromInputToOutput(ctx, 1, 0): line 2202.
SparseToDenseMatMulElemType(a, b) == b.elem_type

\* sparseCompatibleMatmulShapeInference(ctx, 0, 1), lines 399-473: its lines
\* 403-412 and 414-467 repeat lines 291-300 and 339-392 on the raw shapes;
\* no attribute is read.
sparseCompatibleMatmulShape(a, b) ==
    IF MissingInputShape(a, b)
    THEN [err |-> "none", wrote |-> FALSE, dim |-> <<>>]
    ELSE IF WrongRank(a.dim, b.dim)
    THEN WrongRankFailure
    ELSE MatMulOfViews(a.dim, b.dim)

\* mutant: the element type is propagated from input 0
MatMulInteger16ElemType_FromA(a, b) == a.elem_type

\* y_type->mutable_tensor_type()->set_elem_type(TensorProto::INT32): line 2101.
MatMulInteger16ElemType(a, b) == "int32"

\* ONNX_NAMESPACE::matmulShapeInference(ctx, 0, 1), declared at lines 30-33
\* and called at 2103: numpy matmul on the raw shapes.
matmulShapeInference(a, b) ==
    IF MissingInputShape(a, b)
    THEN [err |-> "none", wrote |-> FALSE, dim |-> <<>>]
    ELSE IF WrongRank(a.dim, b.dim)
    THEN WrongRankFailure
    ELSE MatMulOfViews(a.dim, b.dim)

\* mutant: an output that an earlier call has typed is taken as inferred
OutputAfter_TypedIsFinal(y, elem_type, res) ==
    IF y.elem_type # UNDEFINED
    THEN y
    ELSE [hasShape |-> IF res.wrote THEN TRUE ELSE y.hasShape,
          dim |-> IF res.wrote THEN res.dim ELSE y.dim,
          elem_type |-> elem_type]

\* mutant: a failing call leaves the output as it was
OutputAfter_NothingOnFailure(y, elem_type, res) ==
    IF res.err # "none"
    THEN y
    ELSE [hasShape |-> IF res.wrote THEN TRUE ELSE y.hasShape,
          dim |-> IF res.wrote THEN res.dim ELSE y.dim,
          elem_type |-> elem_type]

\* propagateElemTypeFromInputToOutput(ctx, 0, 0), then updateOutputShape.
OutputAfter(y, elem_type, res) ==
    [hasShape  |-> IF res.wrote THEN TRUE ELSE y.hasShape,
     dim       |-> IF res.wrote THEN res.dim ELSE y.dim,
     elem_type |-> elem_type]

----------------------------------------------------------------------------
(* The state machine *)

NoOutput == [hasShape |-> FALSE, dim |-> <<>>, elem_type |-> UNDEFINED]

InitAttrValues == {NoAttr, AttrOf(Int64(0, 1))}

Init ==
    /\ A \in InputsA
    /\ B \in InputsB
    /\ attr \in [AttrNames -> InitAttrValues]
    /\ Y = NoOutput
    /\ pc = "idle"
    /\ err = "none"
    /\ op = "FusedMatMul"
    /\ last = <<>>
    /\ calls = <<>>

\* The node: its inputs, its attributes, its output and the end of the call.
TypeOK ==
    /\ A \in InputsA
    /\ B \in InputsB
    /\ attr \in [AttrNames -> InitAttrValues]
    /\ Y.hasShape \in BOOLEAN
    /\ Y.elem_type \in ElemTypes \cup {UNDEFINED}
    /\ pc \in {"idle", "done"}
    /\ err \in {"none", "InvalidRank", "IncompatibleDimensions"}
    /\ op = "FusedMatMul"
    /\ last = <<>>
    /\ calls = <<>>

\* The TypeAndShapeInferenceFunction of FusedMatMul and of TransposeMatMul.
FusedMatMulShapeInference ==
    /\ pc = "idle"
    /\ op \in {"FusedMatMul", "TransposeMatMul"}
    /\ \E res \in {FusedMatMulShape(A, B, attr)} :
           /\ Y' = OutputAfter(Y, FusedMatMulElemType(A, B), res)
           /\ err' = res.err
    /\ pc' = "done"
    /\ UNCHANGED <<A, B, attr, op, last, calls>>

Next == FusedMatMulShapeInference

Spec == Init /\ [][Next]_vars

----------------------------------------------------------------------------
(* The four matmul operators, with the element types of their inputs *)

Ops == {"FusedMatMul", "TransposeMatMul", "SparseToDenseMatMul", "MatMulInteger16"}

\* Two of the element types the TypeConstraints of an operator allow for
\* its inputs (for SparseToDenseMatMul input 0 is a sparse tensor of them).
InputElemTypes(o) ==
    IF o = "MatMulInteger16" THEN {"int16", "uint16"} ELSE {"float", "double"}

InputsOfOp(values, o) ==
    [hasShape : {TRUE},
     dim : UNION {[1..r -> values \cup {NoValue}] : r \in 0..MaxRankOps},
     elem_type : InputElemTypes(o)]
    \cup [hasShape : {FALSE}, dim : {<<>>}, elem_type : InputElemTypes(o)]

\* transA and transB are attributes of three of the schemas; transBatchA
\* and transBatchB, of FusedMatMul only, are absent here.
InitOps ==
    /\ op \in Ops
    /\ A \in InputsOfOp(DimValuesA, op)
    /\ B \in InputsOfOp(DimValuesB, op)
    /\ attr \in {at \in [AttrNames -> InitAttrValues] :
                    at.transBatchA = NoAttr /\ at.transBatchB = NoAttr}
    /\ Y = NoOutput
    /\ pc = "idle"
    /\ err = "none"
    /\ last = <<>>
    /\ calls = <<>>

\* The TypeAndShapeInferenceFunction of SparseToDenseMatMul: lines 2200-2205.
SparseToDenseMatMul ==
    /\ pc = "idle"
    /\ op = "SparseToDenseMatMul"
    /\ \E res \in {sparseCompatibleMatmulShape(A, B)} :
           /\ Y' = OutputAfter(Y, SparseToDenseMatMulElemType(A, B), res)
           /\ err' = res.err
    /\ pc' = "done"
    /\ UNCHANGED <<A, B, attr, op, last, calls>>

\* The TypeAndShapeInferenceFunction of MatMulInteger16: lines 2089-2104.
\* The inputs have tensor types and the output type is not null, so the
\* fail_type_inference of 2093-2098 is not taken.
MatMulInteger16 ==
    /\ pc = "idle"
    /\ op = "MatMulInteger16"
    /\ \E res \in {matmulShapeInference(A, B)} :
           /\ Y' = OutputAfter(Y, MatMulInteger16ElemType(A, B), res)
           /\ err' = res.err
    /\ pc' = "done"
    /\ UNCHANGED <<A, B, attr, op, last, calls>>

NextOps == FusedMatMulShapeInference \/ SparseToDenseMatMul \/ MatMulInteger16

SpecOps == InitOps /\ [][NextOps]_vars

----------------------------------------------------------------------------
(* Shapes whose known dimensions on the right are not those on the left *)

\* The known dimensions of B: 2 is also a dimension of A, 3 is not.
DimValuesR == {2, 3}

InitShapes ==
    /\ A \in InputsOver(DimValuesA)
    /\ B \in InputsOver(DimValuesR)
    /\ attr \in [AttrNames -> InitAttrValues]
    /\ Y = NoOutput
    /\ pc = "idle"
    /\ err = "none"
    /\ op = "FusedMatMul"
    /\ last = <<>>
    /\ calls = <<>>

SpecShapes == InitShapes /\ [][Next]_vars

----------------------------------------------------------------------------
(* The 64-bit values of the four attributes *)

\* An attribute is absent, or an AttributeProto whose i() is an int64: the
\* values 0, 1, 2^32, 2^32 + 1, ... by their two words.
AttrValues64 ==
    {NoAttr} \cup {AttrOf(Int64(h, l)) : h \in 0..MaxHiWord, l \in {0, 1}}

AttrInputsA ==
    {[hasShape |-> TRUE, dim |-> d, elem_type |-> "float"] :
        d \in {<<2>>, <<1, 2>>, <<2, 1, 2>>}}

AttrInputsB ==
    {[hasShape |-> TRUE, dim |-> d, elem_type |-> "float"] :
        d \in {<<2, 0>>, <<0, 2>>, <<1, 2, 0>>}}

InitAttrs ==
    /\ A \in AttrInputsA
    /\ B \in AttrInputsB
    /\ attr \in [AttrNames -> AttrValues64]
    /\ Y = NoOutput
    /\ pc = "idle"
    /\ err = "none"
    /\ op = "FusedMatMul"
    /\ last = <<>>
    /\ calls = <<>>

SpecAttrs == InitAttrs /\ [][Next]_vars

----------------------------------------------------------------------------
(* A sequence of calls on one FusedMatMul node *)

SeqInputs(values) ==
    {x \in InputsOfOp(values, "FusedMatMul") : x.elem_type \in ElemTypes}

InitSeq ==
    /\ op = "FusedMatMul"
    /\ A \in SeqInputs(DimValuesA)
    /\ B \in SeqInputs(DimValuesB)
    /\ attr \in {at \in [AttrNames -> InitAttrValues] :
                    at.transBatchA = NoAttr /\ at.transBatchB = NoAttr}
    /\ Y = NoOutput
    /\ pc = "idle"
    /\ err = "none"
    /\ last = <<>>
    /\ calls = <<>>

\* What a finished call leaves behind: its inputs and its outcome.
Finished == [A |-> A, B |-> B, attr |-> attr, Y |-> Y, err |-> err]

\* The graph's inference asks for the node again with the same inputs; the
\* output keeps what the finished call wrote.
CallAgain ==
    /\ pc = "done"
    /\ pc' = "idle"
    /\ last' = <<Finished>>
    /\ UNCHANGED <<A, B, attr, Y, err, op, calls>>

\* After a call that returned for a missing shape, the shape of an input
\* becomes available and the graph's inference asks for the node again.
ShapeArrives ==
    /\ pc = "done"
    /\ err = "none"
    /\ \/ /\ ~A.hasShape
          /\ A' \in {x \in SeqInputs(DimValuesA) :
                        x.hasShape /\ x.elem_type = A.elem_type}
          /\ B' = B
       \/ /\ ~B.hasShape
          /\ B' \in {x \in SeqInputs(DimValuesB) :
                        x.hasShape /\ x.elem_type = B.elem_type}
          /\ A' = A
    /\ pc' = "idle"
    /\ last' = <<Finished>>
    /\ UNCHANGED <<attr, Y, err, op, calls>>

NextSeq == FusedMatMulShapeInference \/ CallAgain \/ ShapeArrives

SpecSeq == InitSeq /\ [][NextSeq]_vars

----------------------------------------------------------------------------
(* Concurrent calls of FusedMatMulShapeInference, one per node, each with
   its own InferenceContext; a call is a sequence of four steps *)

Nodes == 1..MaxNodes

ConcInputsA ==
    {[hasShape |-> FALSE, dim |-> <<>>, elem_type |-> "float"]}
    \cup {[hasShape |-> TRUE, dim |-> d, elem_type |-> "float"] :
              d \in {<<>>, <<1, 2>>, <<2, 1>>}}

ConcInputsB ==
    {[hasShape |-> TRUE, dim |-> d, elem_type |-> "float"] :
        d \in {<<2>>, <<2, 0>>}}

ConcAttrs ==
    {at \in [AttrNames -> InitAttrValues] :
        at.transB = NoAttr /\ at.transBatchA = NoAttr /\ at.transBatchB = NoAttr}

InitConc ==
    /\ calls \in [Nodes -> [A : ConcInputsA,
                            B : ConcInputsB,
                            attr : ConcAttrs,
                            Y : {NoOutput},
                            err : {"none"},
                            pc : {"elem_type"},
                            shape0 : {<<>>},
                            shape1 : {<<>>},
                            resultShape : {<<>>}]]
    /\ A = [hasShape |-> FALSE, dim |-> <<>>, elem_type |-> "float"]
    /\ B = [hasShape |-> FALSE, dim |-> <<>>, elem_type |-> "float"]
    /\ attr = [n \in AttrNames |-> NoAttr]
    /\ Y = NoOutput
    /\ pc = "idle"
    /\ err = "none"
    /\ op = "FusedMatMul"
    /\ last = <<>>

\* mutant: shape0, shape1 and resultShape have static storage
Frame_Static(n) == 1

\* shape0, shape1 (line 310) and resultShape (line 341) are automatic
\* variables: each call has its own.
Frame(n) == n

\* Line 280.
PropagateElemType(n) ==
    /\ calls[n].pc = "elem_type"
    /\ calls' = [calls EXCEPT
                    ![n].Y.elem_type = FusedMatMulElemType(calls[n].A, calls[n].B),
                    ![n].pc = "views"]
    /\ UNCHANGED <<A, B, attr, Y, pc, err, op, last>>

\* mutant: the transposition is done in place, in the shapes of the inputs
TransposeViews_InPlace(n) ==
    /\ calls[n].pc = "views"
    /\ LET c == calls[n]
           transa == VectorTranspose(c.A.dim, AttrFlag(c.attr.transA))
           transb == VectorTranspose(c.B.dim, AttrFlag(c.attr.transB))
           view0 == TransposedView(c.A.dim, transa, AttrFlag(c.attr.transBatchA))
           view1 == TransposedView(c.B.dim, transb, AttrFlag(c.attr.transBatchB))
       IN  IF MissingInputShape(c.A, c.B)
           THEN calls' = [calls EXCEPT ![n].pc = "done"]
           ELSE IF WrongRank(c.A.dim, c.B.dim)
           THEN calls' = [calls EXCEPT ![n].err = WrongRankFailure.err,
                                       ![n].pc = "done"]
           ELSE calls' = [calls EXCEPT ![n].A.dim = view0,
                                       ![n].B.dim = view1,
                                       ![Frame(n)].shape0 = view0,
                                       ![Frame(n)].shape1 = view1,
                                       ![n].pc = "multiply"]
    /\ UNCHANGED <<A, B, attr, Y, pc, err, op, last>>

\* Lines 281-337: the attributes, the two returns, the views shape0, shape1.
TransposeViews(n) ==
    /\ calls[n].pc = "views"
    /\ LET c == calls[n]
           transa == VectorTranspose(c.A.dim, AttrFlag(c.attr.transA))
           transb == VectorTranspose(c.B.dim, AttrFlag(c.attr.transB))
       IN  IF MissingInputShape(c.A, c.B)
           THEN calls' = [calls EXCEPT ![n].pc = "done"]
           ELSE IF WrongRank(c.A.dim, c.B.dim)
           THEN calls' = [calls EXCEPT ![n].err = WrongRankFailure.err,
                                       ![n].pc = "done"]
           ELSE calls' = [calls EXCEPT
                            ![Frame(n)].shape0 =
                                TransposedView(c.A.dim, transa,
                                               AttrFlag(c.attr.transBatchA)),
                            ![Frame(n)].shape1 =
                                TransposedView(c.B.dim, transb,
                                               AttrFlag(c.attr.transBatchB)),
                            ![n].pc = "multiply"]
    /\ UNCHANGED <<A, B, attr, Y, pc, err, op, last>>

\* Lines 339-392: resultShape from shape0 and shape1, or a failure.
Multiply(n) ==
    /\ calls[n].pc = "multiply"
    /\ \E res \in {MatMulOfViews(calls[Frame(n)].shape0, calls[Frame(n)].shape1)} :
           IF res.err # "none"
           THEN calls' = [calls EXCEPT ![n].err = res.err, ![n].pc = "done"]
           ELSE calls' = [calls EXCEPT ![Frame(n)].resultShape = res.dim,
                                       ![n].pc = "update"]
    /\ UNCHANGED <<A, B, attr, Y, pc, err, op, last>>

\* Line 393: updateOutputShape(ctx, 0, resultShape).
UpdateOutputShape(n) ==
    /\ calls[n].pc = "update"
    /\ calls' = [calls EXCEPT ![n].Y.hasShape = TRUE,
                              ![n].Y.dim = calls[Frame(n)].resultShape,
                              ![n].pc = "done"]
    /\ UNCHANGED <<A, B, attr, Y, pc, err, op, last>>

NextConc ==
    \E n \in Nodes :
        \/ PropagateElemType(n)
        \/ TransposeViews(n)
        \/ Multiply(n)
        \/ UpdateOutputShape(n)

SpecConc == InitConc /\ [][NextConc]_vars

----------------------------------------------------------------------------
(* Vocabulary of the properties *)

Done == pc = "done"

\* the flag the call reads from attribute n of the node
Flag(n) == AttrFlag(attr[n])

NoFlagSet == \A n \in AttrNames : ~Flag(n)

\* what the call did, in the form FusedMatMulShape returns it (the output has
\* no shape before the call)
Outcome == [err |-> err, wrote |-> Y.hasShape, dim |-> Y.dim]

\* the attributes with those of names removed from the node
Without(at, names) == [n \in AttrNames |-> IF n \in names THEN NoAttr ELSE at[n]]

Rank(x) == Len(x.dim)

BothShapes == A.hasShape /\ B.hasShape

\* the axes of a shape of rank >= 2 before its last two
BatchAxes(shape) == SubSeq(shape, 1, Len(shape) - 2)

RowAxis(shape) == shape[Len(shape) - 1]

ColAxis(shape) == shape[Len(shape)]

Known(d) == d >= 0

\* two dims that are both known and differ
Differ(d, e) == Known(d) /\ Known(e) /\ d # e

\* numpy broadcasting accepts two batch prefixes: aligned at their right
\* ends, no pair of dims is known, unequal and free of 1
BroadcastCompatible(p, q) ==
    \A k \in 0..(Len(p) - 1) :
        k < Len(q) =>
            ~(Differ(p[Len(p) - k], q[Len(q) - k])
              /\ p[Len(p) - k] # 1 /\ q[Len(q) - k] # 1)

----------------------------------------------------------------------------
C1_Case ==
    /\ Done /\ NoFlagSet /\ BothShapes
    /\ Rank(A) >= 2 /\ Rank(B) >= 2
    /\ ~Differ(ColAxis(A.dim), RowAxis(B.dim))
    /\ BroadcastCompatible(BatchAxes(A.dim), BatchAxes(B.dim))

(* C1: with all four flags false, A of rank >= 2 shaped [..., m, k] and B  *)
(* of rank >= 2 shaped [..., k, n], the two k not known and different and  *)
(* the batch prefixes broadcast-compatible: the call succeeds and the      *)
(* output shape is the broadcast of the batch prefixes, then m, then n.    *)
C1_PlainMatMulShape ==
    C1_Case =>
        /\ err = "none"
        /\ Y.hasShape
        /\ Y.dim = bidirectionalBroadcastShapeInference(
                       BatchAxes(A.dim), BatchAxes(B.dim)).dim
                   \o << RowAxis(A.dim), ColAxis(B.dim) >>

\* A = [1, 2, 2] and B = [2, 2, 0]: batch 1 against 2, m = 2, k = 2, n = 0
C1_Witness ==
    /\ C1_Case
    /\ Rank(A) = 3 /\ Rank(B) = 3
    /\ A.dim = <<1, 2, 2>> /\ B.dim = <<2, 2, 0>>
    /\ Y.dim = <<2, 2, 0>>

(* C2 as stated: an operand of rank 0 makes the call fail with InvalidRank, *)
(* whatever the other operand is, its shape available or not.              *)
C2_AsStated ==
    (Done /\ ((A.hasShape /\ Rank(A) = 0) \/ (B.hasShape /\ Rank(B) = 0)))
        => err = "InvalidRank"

(* C2: when both shapes are available and either operand has rank 0, the   *)
(* call fails with InvalidRank, whatever the rank of the other operand,    *)
(* and writes no output shape.                                             *)
C2_RankZeroFails ==
    (Done /\ BothShapes /\ (Rank(A) = 0 \/ Rank(B) = 0))
        => (err = "InvalidRank" /\ ~Y.hasShape)

C2_Witness ==
    /\ Done /\ BothShapes
    /\ Rank(A) = 3 /\ Rank(B) = 0
    /\ err = "InvalidRank"

(* C3: when the shape of A or of B is not available, the call returns      *)
(* without a failure and without writing an output shape, for every        *)
(* setting of the four flags.                                              *)
C3_MissingShapeSkips ==
    (Done /\ (~A.hasShape \/ ~B.hasShape)) => (err = "none" /\ ~Y.hasShape)

\* A of rank 0, the shape of B missing, every flag set: a skip
C3_Witness ==
    /\ Done /\ A.hasShape /\ Rank(A) = 0 /\ ~B.hasShape
    /\ \A n \in AttrNames : Flag(n)
    /\ err = "none" /\ ~Y.hasShape

\* The operands as the multiplication reads them, when both have rank >= 1:
\* flags applied, vectors promoted (shapeL and shapeR of the code).
ViewA ==
    PromoteL(TransposedView(A.dim, VectorTranspose(A.dim, Flag("transA")),
                            Flag("transBatchA")))

ViewB ==
    PromoteR(TransposedView(B.dim, VectorTranspose(B.dim, Flag("transB")),
                            Flag("transBatchB")))

BothRanked == BothShapes /\ Rank(A) >= 1 /\ Rank(B) >= 1

(* C4: flags applied and vectors promoted, when the last axis of A's view  *)
(* and the second-to-last axis of B's view are both known and unequal, the *)
(* call fails with IncompatibleDimensions and no output shape is written.  *)
C4_ContractionMismatchFails ==
    (Done /\ BothRanked /\ Differ(ColAxis(ViewA), RowAxis(ViewB)))
        => (err = "IncompatibleDimensions" /\ ~Y.hasShape)

\* A = [1, 2] and B = [0, 2]: k = 2 against 0, the other axes agree
C4_Witness ==
    /\ Done /\ NoFlagSet
    /\ A.hasShape /\ A.dim = <<1, 2>>
    /\ B.hasShape /\ B.dim = <<0, 2>>
    /\ err = "IncompatibleDimensions" /\ ~Y.hasShape

C5_UnknownContraction ==
    /\ Done /\ BothRanked
    /\ (~Known(ColAxis(ViewA)) \/ ~Known(RowAxis(ViewB)))

(* C5: when at least one of the two contraction dims (last axis of A's     *)
(* view, second-to-last axis of B's view) is unknown, the call does not    *)
(* fail on the contraction: with broadcast-compatible batch prefixes it    *)
(* succeeds.  In a successful call an unknown row axis of A's view and an  *)
(* unknown column axis of B's view are unknown in the output.              *)
C5_UnknownDimsPropagate ==
    /\ (C5_UnknownContraction
        /\ BroadcastCompatible(BatchAxes(ViewA), BatchAxes(ViewB)))
            => (err = "none" /\ Y.hasShape)
    /\ (Done /\ BothRanked /\ err = "none" /\ Rank(A) >= 2
        /\ ~Known(RowAxis(ViewA)))
            => Y.dim[IF Rank(B) >= 2 THEN Len(Y.dim) - 1 ELSE Len(Y.dim)] = NoValue
    /\ (Done /\ BothRanked /\ err = "none" /\ Rank(B) >= 2
        /\ ~Known(ColAxis(ViewB)))
            => Y.dim[Len(Y.dim)] = NoValue

\* A = [?, ?] and B = [2, 0]: the contraction is unknown against 2, the row
\* of A is unknown, the output is [?, 0]
C5_Witness ==
    /\ C5_UnknownContraction /\ NoFlagSet
    /\ A.dim = <<NoValue, NoValue>> /\ B.dim = <<2, 0>>
    /\ err = "none" /\ Y.hasShape /\ Y.dim = <<NoValue, 0>>

C6_Case ==
    /\ Done /\ BothShapes /\ Rank(A) = 1 /\ Rank(B) = 1
    /\ ~Differ(A.dim[1], B.dim[1])

(* C6: when both operands have rank 1 and their lengths are equal or one   *)
(* of them is unknown, the call succeeds and the output shape has rank 0,  *)
(* for every setting of the four flags.                                    *)
C6_VectorsGiveScalar ==
    C6_Case => (err = "none" /\ Y.hasShape /\ Y.dim = <<>>)

\* A = [2] and B = [2] with all four flags set
C6_Witness ==
    /\ C6_Case
    /\ A.dim = <<2>> /\ B.dim = <<2>>
    /\ \A n \in AttrNames : Flag(n)
    /\ Y.hasShape /\ Len(Y.dim) = 0

C7_VectorLeft ==
    /\ Done /\ BothShapes /\ Rank(A) = 1 /\ Rank(B) >= 2
    /\ ~Flag("transB") /\ ~Flag("transBatchB")
    /\ ~Differ(A.dim[1], RowAxis(B.dim))

C7_VectorRight ==
    /\ Done /\ BothShapes /\ Rank(A) >= 2 /\ Rank(B) = 1
    /\ ~Flag("transA") /\ ~Flag("transBatchA")
    /\ ~Differ(ColAxis(A.dim), B.dim[1])

(* C7: a rank-1 operand contributes no axis to the output.  A = [k] times  *)
(* B = [..., k, n] (the flags of B unset) gives B's batch prefix followed  *)
(* by n only; A = [..., m, k] (the flags of A unset) times B = [k] gives   *)
(* A's batch prefix followed by m only.                                    *)
C7_VectorAddsNoAxis ==
    /\ C7_VectorLeft =>
        (err = "none" /\ Y.hasShape
         /\ Y.dim = BatchAxes(B.dim) \o << ColAxis(B.dim) >>)
    /\ C7_VectorRight =>
        (err = "none" /\ Y.hasShape
         /\ Y.dim = BatchAxes(A.dim) \o << RowAxis(A.dim) >>)

\* A = [2] and B = [0, 2, 1]: the output is [0, 1], without the promoted 1
\* in front of it
C7_Witness ==
    /\ C7_VectorLeft
    /\ A.dim = <<2>> /\ B.dim = <<0, 2, 1>>
    /\ Y.hasShape /\ Y.dim = <<0, 1>>

\* input x with another shape
WithDim(x, shape) == [x EXCEPT !.dim = shape]

\* a shape of rank >= 2 with its last two axes swapped
SwapLastTwo(shape) ==
    SubSeq(shape, 1, Len(shape) - 2) \o << shape[Len(shape)], shape[Len(shape) - 1] >>

C8_VectorA == Done /\ A.hasShape /\ Rank(A) = 1

C8_VectorB == Done /\ B.hasShape /\ Rank(B) = 1

(* C8: for an operand of rank 1, neither its transpose flag nor its batch- *)
(* transpose flag changes the outcome: whatever the other operand and its  *)
(* flags are, the outcome of the call (shape, skip or failure) is the one  *)
(* the call has with the flags of the rank-1 operand unset.                *)
C8_VectorFlagsIgnored ==
    /\ C8_VectorA =>
        Outcome = FusedMatMulShape(A, B, Without(attr, {"transA", "transBatchA"}))
    /\ C8_VectorB =>
        Outcome = FusedMatMulShape(A, B, Without(attr, {"transB", "transBatchB"}))

\* A = [2] with transA and transBatchA set, B = [2, 0]: the output is [0]
C8_Witness ==
    /\ C8_VectorA
    /\ Flag("transA") /\ Flag("transBatchA")
    /\ ~Flag("transB") /\ ~Flag("transBatchB")
    /\ A.dim = <<2>> /\ B.hasShape /\ B.dim = <<2, 0>>
    /\ err = "none" /\ Y.dim = <<0>>

C9_TransposedA ==
    Done /\ A.hasShape /\ Rank(A) >= 2 /\ Flag("transA") /\ ~Flag("transBatchA")

C9_TransposedB ==
    Done /\ B.hasShape /\ Rank(B) >= 2 /\ Flag("transB") /\ ~Flag("transBatchB")

(* C9: for an operand of rank >= 2 with its batch-transpose flag unset,    *)
(* setting its transpose flag is swapping its last two axes: the outcome   *)
(* with transA set is the outcome for A with its last two axes swapped and *)
(* transA unset, and likewise for B and transB, success and failure alike. *)
C9_TransposeSwapsLastTwo ==
    /\ C9_TransposedA =>
        Outcome = FusedMatMulShape(WithDim(A, SwapLastTwo(A.dim)), B,
                                   Without(attr, {"transA"}))
    /\ C9_TransposedB =>
        Outcome = FusedMatMulShape(A, WithDim(B, SwapLastTwo(B.dim)),
                                   Without(attr, {"transB"}))

\* A = [2, 1, ?] read as [2, ?, 1], B = [1, 0]: the output is [2, ?, 0]
C9_Witness ==
    /\ C9_TransposedA /\ ~Flag("transB") /\ ~Flag("transBatchB")
    /\ A.dim = <<2, 1, NoValue>> /\ B.hasShape /\ B.dim = <<1, 0>>
    /\ err = "none" /\ Y.dim = <<2, NoValue, 0>>

\* [d0, ..., d(r-1)] with axis 0 moved to just before the last two axes
AxisZeroBeforeLastTwo(shape) ==
    SubSeq(shape, 2, Len(shape) - 2)
    \o << shape[1], shape[Len(shape) - 1], shape[Len(shape)] >>

\* [d0, ..., d(r-1)] read as [d1, ..., d(r-2), d0, d(r-1)]
AxisZeroAsRow(shape) ==
    SubSeq(shape, 2, Len(shape) - 1) \o << shape[1], shape[Len(shape)] >>

C10_BatchTransposedA ==
    Done /\ A.hasShape /\ Rank(A) >= 3 /\ Flag("transBatchA") /\ ~Flag("transA")

C10_BatchTransposedB ==
    Done /\ B.hasShape /\ Rank(B) >= 3 /\ Flag("transBatchB") /\ ~Flag("transB")

(* C10 as stated: with transBatchA set on A of rank r >= 3 (transA unset)  *)
(* A is read as [d1, ..., d(r-3), d0, d(r-2), d(r-1)], the last two axes   *)
(* staying the row and the contraction axis, so that for rank 3 the        *)
(* outcome is the one with the flag unset; the same for B.                 *)
C10_AsStated ==
    /\ C10_BatchTransposedA =>
        Outcome = FusedMatMulShape(WithDim(A, AxisZeroBeforeLastTwo(A.dim)), B,
                                   Without(attr, {"transBatchA"}))
    /\ C10_BatchTransposedB =>
        Outcome = FusedMatMulShape(A, WithDim(B, AxisZeroBeforeLastTwo(B.dim)),
                                   Without(attr, {"transBatchB"}))

(* C10: with transBatchA set on A of rank r >= 3 (transA unset) A is read  *)
(* as [d1, ..., d(r-2), d0, d(r-1)]: the batch prefix is d1..d(r-2), the   *)
(* row axis is d0 and the contraction axis is d(r-1); the outcome is the   *)
(* one for that shape with the flag unset.  The same holds for B with      *)
(* transBatchB: its contraction axis is d0 and its column axis d(r-1).     *)
C10_BatchTransposeMovesAxisZero ==
    /\ C10_BatchTransposedA =>
        Outcome = FusedMatMulShape(WithDim(A, AxisZeroAsRow(A.dim)), B,
                                   Without(attr, {"transBatchA"}))
    /\ C10_BatchTransposedB =>
        Outcome = FusedMatMulShape(A, WithDim(B, AxisZeroAsRow(B.dim)),
                                   Without(attr, {"transBatchB"}))

\* A = [1, 2, ?] read as [2, 1, ?], B = [2, 0]: the output is [2, 1, 0],
\* where the flag unset gives [1, 2, 0]
C10_Witness ==
    /\ C10_BatchTransposedA /\ ~Flag("transB") /\ ~Flag("transBatchB")
    /\ A.dim = <<1, 2, NoValue>> /\ B.hasShape /\ B.dim = <<2, 0>>
    /\ err = "none" /\ Y.dim = <<2, 1, 0>>

\* Dim k (counted from the right, 0 the last) of a batch prefix, as numpy
\* aligns it: a prefix too short for k is padded with 1 on its left.
Aligned(p, k) == IF k < Len(p) THEN p[Len(p) - k] ELSE 1

MaxLen(p, q) == IF Len(p) > Len(q) THEN Len(p) ELSE Len(q)

\* a pair of known dims that broadcast: equal, or one of them 1
Broadcasts(d, e) == Known(d) /\ Known(e) /\ (d = e \/ d = 1 \/ e = 1)

\* a pair of known dims that do not: unequal and neither is 1
Conflict(d, e) == Differ(d, e) /\ d # 1 /\ e # 1

\* the output axes before those of the matrix product
OutputBatch == SubSeq(Y.dim, 1, Len(Y.dim) - (IF Rank(A) >= 2 THEN 1 ELSE 0)
                                           - (IF Rank(B) >= 2 THEN 1 ELSE 0))

C11_Case == Done /\ BothRanked /\ err = "none"

C12_Case ==
    /\ Done /\ BothRanked
    /\ \E k \in 0..(MaxLen(BatchAxes(ViewA), BatchAxes(ViewB)) - 1) :
           Conflict(Aligned(BatchAxes(ViewA), k), Aligned(BatchAxes(ViewB), k))

(* C12: when some aligned pair of batch-prefix dims is known, unequal and  *)
(* free of 1, the call fails with IncompatibleDimensions and writes no     *)
(* output shape, also when the contraction dims are compatible.            *)
C12_BatchConflictFails ==
    C12_Case => (err = "IncompatibleDimensions" /\ ~Y.hasShape)

\* A = [2, 1, 2] against B = [0, 2, 1]: batch 2 against 0, k = 2 on both
C12_Witness ==
    /\ C12_Case /\ NoFlagSet
    /\ A.dim = <<2, 1, 2>> /\ B.dim = <<0, 2, 1>>
    /\ ~ContractionMismatch(ViewA, ViewB)
    /\ err = "IncompatibleDimensions" /\ ~Y.hasShape


----------------------------------------------------------------------------
(* The element type of the output, and the four operators *)

IsFused == op \in {"FusedMatMul", "TransposeMatMul"}
IsSparse == op = "SparseToDenseMatMul"
IsInteger16 == op = "MatMulInteger16"
Failed == Done /\ err # "none"

C13_Case == Done /\ IsFused /\ err = "none"

(* C13: for FusedMatMul and TransposeMatMul, a call that returns normally,
   with an output shape or with a skip for a missing shape, leaves the
   element type of input 0 as the element type of output 0. *)
C13_ElemTypeFromInput0 == C13_Case => Y.elem_type = A.elem_type

C13_Witness ==
    /\ C13_Case
    /\ op = "TransposeMatMul"
    /\ ~A.hasShape
    /\ A.elem_type = "double"
    /\ B.elem_type = "float"
    /\ Y.elem_type = "double"
    /\ ~Y.hasShape

\* C14 as it is stated: after a failing call the output is what it was
\* before the call (no shape, no element type).
C14_AsStated == Failed => Y = NoOutput

(* C14: a failing call (InvalidRank or IncompatibleDimensions) writes no
   shape to the output, but it has already written the element type of the
   output: input 0's for FusedMatMul and TransposeMatMul, input 1's for
   SparseToDenseMatMul, int32 for MatMulInteger16. *)
C14_FailureKeepsShapeSetsElemType ==
    Failed =>
        /\ ~Y.hasShape
        /\ Y.dim = <<>>
        /\ Y.elem_type # NoOutput.elem_type
        /\ IsFused => Y.elem_type = A.elem_type
        /\ IsSparse => Y.elem_type = B.elem_type
        /\ IsInteger16 => Y.elem_type = "int32"

C14_Witness ==
    /\ Failed
    /\ op = "FusedMatMul"
    /\ NoFlagSet
    /\ A.dim = <<1, 2>>
    /\ B.dim = <<1, 0>>
    /\ A.elem_type = "double"
    /\ err = "IncompatibleDimensions"
    /\ Y = [hasShape |-> FALSE, dim |-> <<>>, elem_type |-> "double"]

\* C15 as it is stated: the outcome of SparseToDenseMatMul is the outcome
\* of FusedMatMul's shape inference on the same shapes, transA and transB.
C15_AsStated ==
    (Done /\ IsSparse) =>
        Outcome = FusedMatMulShape(A, B, Without(attr, {"transBatchA", "transBatchB"}))

(* C16: for SparseToDenseMatMul the element type of the output is that of
   input 1, the dense operand, whatever the sparse operand's is, and also
   when a shape is missing. *)
C16_ElemTypeFromInput1 == (Done /\ IsSparse) => Y.elem_type = B.elem_type

C16_Witness ==
    /\ Done /\ IsSparse
    /\ ~A.hasShape
    /\ A.elem_type = "double"
    /\ B.elem_type = "float"
    /\ err = "none"
    /\ Y = [hasShape |-> FALSE, dim |-> <<>>, elem_type |-> "float"]

C18_AsStated ==
    (Done /\ IsInteger16) =>
        Y.elem_type = (IF A.elem_type = "uint16" /\ B.elem_type = "uint16"
                       THEN "uint32"
                       ELSE "int32")

----------------------------------------------------------------------------
(* Calls after calls on the same node *)

Again == Done /\ last # <<>>
SameInputs == last[1].A = A /\ last[1].B = B /\ last[1].attr = attr
AfterSkip ==
    /\ last[1].err = "none"
    /\ ~(last[1].A.hasShape /\ last[1].B.hasShape)
    /\ BothShapes

(* C19: the outcome of a call is a function of that call's inputs: a call
   with the inputs of the previous call has the previous call's outcome,
   and a call with both shapes available that follows a call skipped for a
   missing shape has the outcome of a first call on these inputs. *)
C19_OutcomeOfInputsOnly ==
    Again =>
        /\ SameInputs => (Y = last[1].Y /\ err = last[1].err)
        /\ AfterSkip =>
              /\ Outcome = FusedMatMulShape(A, B, attr)
              /\ Y.elem_type = A.elem_type

C19_Witness ==
    /\ Again
    /\ AfterSkip
    /\ ~last[1].A.hasShape
    /\ last[1].Y = [hasShape |-> FALSE, dim |-> <<>>, elem_type |-> "float"]
    /\ NoFlagSet
    /\ A.dim = <<1, 2>>
    /\ B.dim = <<2, 0>>
    /\ err = "none"
    /\ Y = [hasShape |-> TRUE, dim |-> <<1, 0>>, elem_type |-> "float"]

----------------------------------------------------------------------------
(* Concurrent calls *)

\* What the call of node n gives when it runs alone.
Alone(n) ==
    LET res == FusedMatMulShape(calls[n].A, calls[n].B, calls[n].attr)
    IN  [Y |-> OutputAfter(NoOutput,
                           FusedMatMulElemType(calls[n].A, calls[n].B), res),
         err |-> res.err]

Returned(n) == calls[n].pc = "done"

(* C20: under every interleaving of the steps of the concurrent calls,
   each call that has returned leaves the output and the failure it leaves
   when it runs alone on its inputs. *)
C20_NoInterference ==
    \A n \in Nodes :
        Returned(n) => (calls[n].Y = Alone(n).Y /\ calls[n].err = Alone(n).err)

C20_Witness ==
    /\ \A n \in Nodes : Returned(n)
    /\ calls[1].A.dim = <<1, 2>> /\ calls[1].B.dim = <<2, 0>>
    /\ ~AttrFlag(calls[1].attr.transA)
    /\ calls[1].Y = [hasShape |-> TRUE, dim |-> <<1, 0>>, elem_type |-> "float"]
    /\ calls[2].A.dim = <<2, 1>> /\ calls[2].B.dim = <<2>>
    /\ AttrFlag(calls[2].attr.transA)
    /\ calls[2].Y = [hasShape |-> TRUE, dim |-> <<1>>, elem_type |-> "float"]

----------------------------------------------------------------------------
(* The inputs of a call *)

(* C21: no step of a call changes the shape of input A or of input B,
   whether the call ends with a shape, a skip or a failure; the transposed
   views are held apart from the inputs. *)
C21_InputsNotModified ==
    [][\A n \in Nodes : calls'[n].A = calls[n].A /\ calls'[n].B = calls[n].B]_vars

C21_Witness ==
    /\ calls[1].pc = "multiply"
    /\ AttrFlag(calls[1].attr.transA)
    /\ calls[1].A.dim = <<2, 1>>
    /\ calls[1].shape0 = <<1, 2>>
    /\ Returned(2)
    /\ calls[2].err = "IncompatibleDimensions"
    /\ calls[2].A.dim = <<2, 1>>

----------------------------------------------------------------------------
(* The four attributes *)

Zero64 == AttrOf(Int64(0, 0))
One64 == AttrOf(Int64(0, 1))

(* C22: a flag whose attribute is absent is false, whatever the other
   three attributes are: the call gives what it gives with that attribute
   present and 0 and the other three as they are. *)
C22_AbsentFlagIsFalse ==
    Done =>
        \A n \in AttrNames :
            ~attr[n].present =>
                /\ ~Flag(n)
                /\ Outcome = FusedMatMulShape(A, B, [attr EXCEPT ![n] = Zero64])

C22_Witness ==
    /\ Done
    /\ ~attr.transA.present
    /\ \A n \in AttrNames \ {"transA"} : attr[n] = One64
    /\ A.dim = <<1, 2>>
    /\ B.dim = <<0, 2>>
    /\ Y.dim = <<1, 0>>
    /\ Outcome # FusedMatMulShape(A, B, [attr EXCEPT !.transA = One64])

\* the attribute as C26 reads it: true when present with a nonzero int64
Nonzero64(a) == IF a.present /\ ~Int64IsZero(a.i) THEN One64 ELSE NoAttr

\* C26 as it is stated: every present attribute with a nonzero 64-bit
\* value, 2^32 included, acts as the flag set.
C26_AsStated ==
    Done => Outcome = FusedMatMulShape(A, B, [n \in AttrNames |-> Nonzero64(attr[n])])

----------------------------------------------------------------------------
(* The report of a failure *)

\* C23 as it is stated: when the contraction axes conflict, the failure
\* reported carries the two conflicting values.
C23_AsStated ==
    (Done /\ IsFused /\ BothRanked /\ ContractionMismatch(ViewA, ViewB)) =>
        /\ err = "IncompatibleDimensions"
        /\ \E i, j \in 1..2 :
              LET f == IncompatibleDimensionsFailure(ColAxis(ViewA), RowAxis(ViewB))
              IN  /\ i # j
                  /\ Len(f.args) >= 2
                  /\ f.args[i] = ColAxis(ViewA)
                  /\ f.args[j] = RowAxis(ViewB)

----------------------------------------------------------------------------
(* Batch transposition, with and without the transposition of the matrix *)

\* [d0, ..., d(r-1)] as a batch-transposed operand is read
BatchTransposed(shape, trans) ==
    IF trans THEN SwapLastTwo(AxisZeroAsRow(shape)) ELSE AxisZeroAsRow(shape)

C24_BatchTransposedA == Done /\ BothRanked /\ Rank(A) >= 3 /\ Flag("transBatchA")

C24_BatchTransposedB == Done /\ BothRanked /\ Rank(B) >= 3 /\ Flag("transBatchB")

(* C24: with transBatchA set on A = [d0, ..., d(r-1)] of rank r >= 3 the
   batch prefix is d1..d(r-2) and d0 is a matrix axis: A is read as
   [d1, ..., d(r-2), d0, d(r-1)] with transA unset and as
   [d1, ..., d(r-2), d(r-1), d0] with transA set, and the outcome is the
   one for that shape with both flags unset.  The same for B with
   transBatchB and transB. *)
C24_BatchTransposeWithTranspose ==
    /\ C24_BatchTransposedA =>
          /\ ViewA = BatchTransposed(A.dim, Flag("transA"))
          /\ BatchAxes(ViewA) = SubSeq(A.dim, 2, Rank(A) - 1)
          /\ A.dim[1] = (IF Flag("transA") THEN ColAxis(ViewA) ELSE RowAxis(ViewA))
          /\ Outcome = FusedMatMulShape(
                           WithDim(A, BatchTransposed(A.dim, Flag("transA"))), B,
                           Without(attr, {"transA", "transBatchA"}))
    /\ C24_BatchTransposedB =>
          /\ ViewB = BatchTransposed(B.dim, Flag("transB"))
          /\ BatchAxes(ViewB) = SubSeq(B.dim, 2, Rank(B) - 1)
          /\ B.dim[1] = (IF Flag("transB") THEN ColAxis(ViewB) ELSE RowAxis(ViewB))
          /\ Outcome = FusedMatMulShape(
                           A, WithDim(B, BatchTransposed(B.dim, Flag("transB"))),
                           Without(attr, {"transB", "transBatchB"}))

\* A = [1, 2, 2] read as [2, 2, 1]: row 2 and contraction 1, where no flag
\* gives row 2 and contraction 2; with B = [?, 3] the output is [2, 2, 3]
C24_Witness ==
    /\ C24_BatchTransposedA
    /\ Flag("transA") /\ ~Flag("transB") /\ ~Flag("transBatchB")
    /\ A.dim = <<1, 2, 2>>
    /\ B.dim = <<NoValue, 3>>
    /\ ViewA = <<2, 2, 1>>
    /\ err = "none"
    /\ Y.dim = <<2, 2, 3>>

----------------------------------------------------------------------------
(* The three outcomes *)

Skipped == err = "none" /\ ~Y.hasShape
Shaped == err = "none" /\ Y.hasShape
OneOutcome ==
    /\ Skipped \/ Failed \/ Shaped
    /\ ~(Failed /\ Y.hasShape)

NoBatchConflict ==
    \A k \in 0..(MaxLen(BatchAxes(ViewA), BatchAxes(ViewB)) - 1) :
        ~Conflict(Aligned(BatchAxes(ViewA), k), Aligned(BatchAxes(ViewB), k))

ShapeExpected ==
    /\ BothRanked
    /\ ~Differ(ColAxis(ViewA), RowAxis(ViewB))
    /\ NoBatchConflict

\* what the call entered in this state returns is a skip, a failure or a
\* shape: it has a result for these inputs
HasResult ==
    LET res == FusedMatMulShape(A, B, attr)
    IN  \/ res.err = "none" /\ ~res.wrote
        \/ res.err \in {"InvalidRank", "IncompatibleDimensions"} /\ ~res.wrote
        \/ res.err = "none" /\ res.wrote /\ Len(res.dim) <= MaxRank

(* C25: a call has a result for every input it is entered with (its code
   is straight-line, with loops bounded by the rank); it ends with a skip,
   a failure or an output shape and never two of them, and it ends with an
   output shape exactly when both shapes are available, both ranks are at
   least 1, the contraction dims are not known and unequal, and no aligned
   pair of batch dims is known, unequal and free of 1. *)
C25_TerminatesWithOneOutcome ==
    /\ pc = "idle" => HasResult
    /\ Done => (OneOutcome /\ (Shaped <=> ShapeExpected))

C25_Witness ==
    /\ Done
    /\ NoFlagSet
    /\ A.dim = <<1, 2, 2>>
    /\ B.dim = <<3, 2, 3>>
    /\ ShapeExpected
    /\ Shaped
    /\ Y.dim = <<3, 2, 3>>

----------------------------------------------------------------------------
(* A dimension of 1 on the contraction axis and in the batch prefix *)

\* one of the two is 1 and the other a known value that is not 1
OneAgainstOther(d, e) == Differ(d, e) /\ (d = 1 \/ e = 1)

C27_ContractionOne ==
    Done /\ BothRanked /\ OneAgainstOther(ColAxis(ViewA), RowAxis(ViewB))

C27_BatchOne ==
    /\ Done /\ BothRanked
    /\ ~Differ(ColAxis(ViewA), RowAxis(ViewB))
    /\ NoBatchConflict
    /\ \E k \in 0..(MaxLen(BatchAxes(ViewA), BatchAxes(ViewB)) - 1) :
          OneAgainstOther(Aligned(BatchAxes(ViewA), k), Aligned(BatchAxes(ViewB), k))

(* C27: the contraction axes are compared for equality and never
   broadcast: when one of them is 1 and the other a known value that is not
   1 the call fails with IncompatibleDimensions and writes no shape, while
   the same pair of values on an aligned pair of batch axes gives an output
   shape. *)
C27_ContractionIsStrict ==
    /\ C27_ContractionOne => (err = "IncompatibleDimensions" /\ ~Y.hasShape)
    /\ C27_BatchOne => Shaped

\* A = [2, 1], B = [2, 3]: contraction 1 against 2
C27_Witness ==
    /\ C27_ContractionOne
    /\ NoFlagSet
    /\ A.dim = <<2, 1>>
    /\ B.dim = <<2, 3>>
    /\ err = "IncompatibleDimensions"
    /\ ~Y.hasShape

----------------------------------------------------------------------------
(* The batch flag on a matrix *)

C28_MatrixA == Done /\ A.hasShape /\ Rank(A) = 2 /\ Flag("transBatchA")

C28_MatrixB == Done /\ B.hasShape /\ Rank(B) = 2 /\ Flag("transBatchB")

(* C28: on an operand of rank 2 the batch-transpose flag changes nothing:
   for every shape of the other operand and every setting of the other
   three flags the outcome with transBatchA (transBatchB) set is the
   outcome with it unset. *)
C28_BatchFlagIgnoredOnMatrix ==
    /\ C28_MatrixA => Outcome = FusedMatMulShape(A, B, Without(attr, {"transBatchA"}))
    /\ C28_MatrixB => Outcome = FusedMatMulShape(A, B, Without(attr, {"transBatchB"}))

C28_Witness ==
    /\ C28_MatrixA
    /\ \A n \in AttrNames \ {"transBatchA"} : ~Flag(n)
    /\ A.dim = <<1, 2>>
    /\ B.dim = <<2, 3>>
    /\ err = "none"
    /\ Y.dim = <<1, 3>>

----------------------------------------------------------------------------
(* Exchanging the operands *)

\* the attribute that gives the opposite flag
Opposite(a) == IF AttrFlag(a) THEN NoAttr ELSE One64

\* the attributes of the call on (B, A): transA = not transB, transB = not transA
SwappedAttr ==
    [n \in AttrNames |->
        IF n = "transA" THEN Opposite(attr.transB)
        ELSE IF n = "transB" THEN Opposite(attr.transA)
        ELSE NoAttr]

C29_Case ==
    /\ Done /\ BothShapes
    /\ Rank(A) = 2 /\ Rank(B) = 2
    /\ ~Flag("transBatchA") /\ ~Flag("transBatchB")

(* C29: for two operands of rank 2 with the batch flags unset, the call on
   (A, B) with flags (a, b) and the call on (B, A) with flags (not b, not a)
   fail together, and when they succeed the outputs [m, n] and [n, m] are
   each other's reverse. *)
C29_SwapDuality ==
    C29_Case =>
        LET swapped == FusedMatMulShape(B, A, SwappedAttr)
        IN  /\ swapped.err = err
            /\ swapped.wrote = Y.hasShape
            /\ Y.hasShape =>
                  /\ Len(Y.dim) = 2
                  /\ swapped.dim = << Y.dim[2], Y.dim[1] >>

\* A = [1, 2] transposed, B = [?, 3]: [2, 3]; (B, A) with B transposed: [3, 2]
C29_Witness ==
    /\ C29_Case
    /\ Flag("transA") /\ ~Flag("transB")
    /\ A.dim = <<1, 2>>
    /\ B.dim = <<NoValue, 3>>
    /\ Y.dim = <<2, 3>>
    /\ FusedMatMulShape(B, A, SwappedAttr).dim = <<3, 2>>

----------------------------------------------------------------------------
(* Where the dimensions of the output come from *)

\* d is the value of a known dim of the shape
DimOf(d, shape) == \E j \in 1..Len(shape) : Known(shape[j]) /\ shape[j] = d

C30_Case == Done /\ Shaped

(* C30: in an output shape every known dim is the value of a known dim of
   input A or of input B; the axis of size 1 given to an operand of rank 1
   gives no dim of the output. *)
C30_NoInventedDim ==
    C30_Case =>
        \A i \in 1..Len(Y.dim) :
            Known(Y.dim[i]) => (DimOf(Y.dim[i], A.dim) \/ DimOf(Y.dim[i], B.dim))

\* A = [2] is promoted to [1, 2]; no input has a dim of 1 and the output
\* is [3, 3]
C30_Witness ==
    /\ C30_Case
    /\ NoFlagSet
    /\ A.dim = <<2>>
    /\ B.dim = <<3, 2, 3>>
    /\ ViewA = <<1, 2>>
    /\ Y.dim = <<3, 3>>


=============================================================================
